---- MODULE Spec2Model ----
(***************************************************************************)
(* Model of the detection-and-automation worker of lol-auto-accept-rs:     *)
(* the owner (LolAutoAcceptApp, driven by eframe's update()), the worker   *)
(* thread (run_worker / handle_frame), the cancellation flag, the event    *)
(* channel between them and the cooldown gate.                             *)
(*                                                                         *)
(* Time is counted in units of 1/UnitsPerMs milliseconds, so that instants *)
(* that are not a whole number of milliseconds exist.  Scores, scales and  *)
(* the threshold are hundredths (0.88 is 88).                              *)
(*                                                                         *)
(* The matcher (detect.rs: build_variants, detect, find_peak) is modelled  *)
(* on its own under MatcherSpec; the f32 arithmetic of build_variants is   *)
(* carried out on whole numbers of 2^-24.                                  *)
(*                                                                         *)
(* AbnormalSpec adds a worker thread that ends by a panic and a call of    *)
(* start_monitoring while running, which Spec does not contain.            *)
(***************************************************************************)
EXTENDS Integers, Sequences, FiniteSets, TLC

\* ---------------------------------------------------------------- bounds

\* resolution of the clock: units per millisecond
UnitsPerMs == 2
\* loop iterations a worker run may begin before it only waits for a stop
MaxTicks == 2

\* ------------------------------------------------------ program constants

\* app.rs:550  thread::sleep(Duration::from_millis(250))
RECOVERY_DELAY_MS == 250
\* app.rs:521  config.interval_ms.max(10)
MIN_INTERVAL_MS == 10
\* input.rs:9  std::thread::sleep(Duration::from_millis(30))
CLICK_SLEEP_MS == 30

\* ------------------------------------------------------------ input sets

\* AppConfig.interval_ms values tried (0 is clamped to 10 by run_worker)
IntervalMsSet == {0, 10}
\* AppConfig.cooldown_ms values tried: none, and around the 40 ms that one
\* click (30 ms) plus one poll interval (10 ms) take
CooldownMsSet == {0, 40, 41}
\* AppConfig.threshold values tried, in hundredths
ThresholdSet == {88}
\* how much longer than asked a thread::sleep may take, in clock units
JitterSet == {0, 1}
\* AppConfig.click_offset_x and click_offset_y values tried
ClickOffsetXSet == {-3}
ClickOffsetYSet == {5}
\* CapturedFrame.origin of the monitor captured: a monitor left of and above
\* the primary one
frame_origin == << -1920, -40 >>
\* what detect returns on the frames tried (scores and scales in hundredths):
\* a match below the threshold, one at the threshold (the 24x24 variant at
\* (50,50)) and one above it (a variant of odd width and height)
DetectionSet ==
    { [score |-> 87, position |-> << 0, 0 >>, template_size |-> << 4, 4 >>, scale |-> 65],
      [score |-> 88, position |-> << 50, 50 >>, template_size |-> << 24, 24 >>, scale |-> 120],
      [score |-> 89, position |-> << 3, 7 >>, template_size |-> << 13, 15 >>, scale |-> 100] }

\* sizes << width, height >> of the base image tried: too small for any
\* variant, small enough that the ladder is cut, ones whose products fall next
\* to a half, and one that keeps the whole ladder
BaseSizeSet == { << 2, 2 >>, << 3, 3 >>, << 4, 4 >>, << 5, 3 >>, << 30, 4 >>, << 6, 6 >> }
\* sizes << width, height >> of the frame tried
FrameSizeSet == { << 3, 3 >>, << 4, 4 >>, << 5, 4 >>, << 5, 5 >> }
\* scores match_template gives at a placement, in hundredths
MatchScoreSet == {88, 89}

\* ------------------------------------------------------------- helpers

\* Option<T>: None is the empty sequence, Some(x) is <<x>>
None == <<>>
Some(x) == <<x>>
IsSome(o) == Len(o) = 1
Unwrap(o) == o[1]

\* Duration::from_millis
from_millis(ms) == ms * UnitsPerMs

\* mutant of as_millis: the nearest whole millisecond
as_millis_rounded(d) == (2 * d + UnitsPerMs) \div (2 * UnitsPerMs)

\* Duration::as_millis: whole milliseconds, the fraction dropped
as_millis(d) == d \div UnitsPerMs

\* Duration::saturating_sub
saturating_sub(a, b) == IF a >= b THEN a - b ELSE 0

\* Instant::duration_since: saturates to zero for an earlier instant
duration_since(later, earlier) == IF later >= earlier THEN later - earlier ELSE 0

\* u64::max
Max(a, b) == IF a >= b THEN a ELSE b

VARIABLES
    \* ---- LolAutoAcceptApp (the owner)
    config,          \* AppConfig of the owner
    running,         \* LolAutoAcceptApp.running
    worker,          \* LolAutoAcceptApp.worker: TRUE iff Some(WorkerHandle)
    events_rx,       \* LolAutoAcceptApp.events_rx: TRUE iff Some(receiver)
    exit_requested,  \* LolAutoAcceptApp.exit_requested
    thread,          \* WorkerHandle.thread of the run's handle: TRUE iff Some(JoinHandle)
    start_failed,    \* the last call of start_monitoring returned without a worker
    start_ignored,   \* start_monitoring was called during this run and returned at once
    ownerPc,         \* where the owner is in update() / stop_monitoring / drop
    \* ---- the channel and the flag shared with the worker
    queue,           \* events sent and not yet received
    stop_flag,       \* the run's Arc<AtomicBool>
    \* ---- the worker thread (run_worker)
    wpc,             \* where the worker thread is
    wconfig,         \* the AppConfig clone moved into the thread
    last_click,      \* Option<Instant> of run_worker
    now,             \* handle_frame's `now` of the current tick
    frame,           \* outcome of the current tick's capture: "Ok" | "Err" | "-"
    result,          \* detect's result of the current tick: None | Some(Detection)
    screen,          \* handle_frame's (screen_x, screen_y) of the current tick
    \* ---- the environment
    clock,           \* the monotonic clock read by Instant::now()
    \* ---- history of the current run
    emitted,         \* events the worker sent, in order
    handled,         \* events handle_event was called with, in order
    sinkLog,         \* calls of input::click_at: [at |-> now, ok |-> outcome]
    ticks,           \* loop iterations begun in this run
    restarted,       \* a worker was spawned after an earlier run
    alive,           \* worker threads spawned and not yet returned
    sleptSinceStop,  \* sleep the worker asked for since cancellation was requested
    sinceStop,       \* captures and sink calls made since cancellation was requested
    \* ---- the matcher on its own (detect.rs): load_template, then detect
    base,            \* the base image of load_template: << width, height >>
    template,        \* Template.variants: the variants build_variants made
    image,           \* the frame given to detect: << width, height >>
    vi,              \* detect's position in template.variants()
    best,            \* detect's `best`: None | Some(Detection)
    peaks,           \* find_peak's result per variant so far; None for a skipped one
    mpc              \* where the matcher is: "idle" | "load" | "detect" | "done"

programVars ==
    << config, running, worker, events_rx, exit_requested, thread,
       start_failed, start_ignored, ownerPc,
       queue, stop_flag, wpc, wconfig, last_click, now, frame, result,
       screen, clock, emitted, handled, sinkLog, ticks, restarted, alive,
       sleptSinceStop, sinceStop >>

matcherVars == << base, template, image, vi, best, peaks, mpc >>

vars == << programVars, matcherVars >>

ownerVars == << config, running, worker, events_rx, exit_requested, thread,
               start_failed, start_ignored, ownerPc >>
tickVars == << now, frame, result, screen >>
histVars == << emitted, handled, sinkLog, ticks, restarted, alive, sleptSinceStop,
              sinceStop >>

\* ---------------------------------------------------------------- events

Info == [type |-> "Info"]
Stopped == [type |-> "Stopped"]
CaptureError == [type |-> "Error", message |-> "Capture failed"]
ClickError == [type |-> "Error", message |-> "Click failed"]
Clicked(screen_coords) == [type |-> "Clicked", screen_coords |-> screen_coords]
\* mutant of Detection: the frame-local position reported as screen position
Detection_image_coords(d, screen_coords) ==
    [type |-> "Detection", score |-> d.score, image_coords |-> d.position,
     screen_coords |-> d.position, template_size |-> d.template_size,
     scale |-> d.scale]

Detection(d, screen_coords) ==
    [type |-> "Detection", score |-> d.score, image_coords |-> d.position,
     screen_coords |-> screen_coords, template_size |-> d.template_size,
     scale |-> d.scale]
CooldownActive(score, remaining_ms) ==
    [type |-> "CooldownActive", score |-> score, remaining_ms |-> remaining_ms]

AppConfigs ==
    [threshold : ThresholdSet, interval_ms : IntervalMsSet, cooldown_ms : CooldownMsSet,
     click_offset_x : ClickOffsetXSet, click_offset_y : ClickOffsetYSet]

\* ------------------------------------------------------------------ Init

\* the matcher is not exercised on its own
MatcherIdle ==
    /\ base = << 0, 0 >>
    /\ template = <<>>
    /\ image = << 0, 0 >>
    /\ vi = 0
    /\ best = None
    /\ peaks = <<>>
    /\ mpc = "idle"

ProgramInit ==
    /\ config \in AppConfigs
    /\ running = FALSE
    /\ worker = FALSE
    /\ events_rx = FALSE
    /\ exit_requested = FALSE
    /\ thread = FALSE
    /\ start_failed = FALSE
    /\ start_ignored = FALSE
    /\ ownerPc = "update"
    /\ queue = <<>>
    /\ stop_flag = FALSE
    /\ wpc = "none"
    /\ wconfig = config
    /\ last_click = None
    /\ now = 0
    /\ frame = "-"
    /\ result = None
    /\ screen = None
    /\ clock = 0
    /\ emitted = <<>>
    /\ handled = <<>>
    /\ sinkLog = <<>>
    /\ ticks = 0
    /\ restarted = FALSE
    /\ alive = 0
    /\ sleptSinceStop = 0
    /\ sinceStop = [capture |-> 0, click_at |-> 0]

Init == ProgramInit /\ MatcherIdle

\* ------------------------------------------------- the worker: run_worker

\* mutant of run_worker_config: the thread reads the owner's configuration
run_worker_config_live == config

\* app.rs:514, 237  run_worker's `config`: the clone moved into the thread
run_worker_config == wconfig

\* app.rs:520  let cooldown = Duration::from_millis(config.cooldown_ms)
cooldown(cfg) == from_millis(cfg.cooldown_ms)

\* mutants of interval: the configured number taken as seconds, and the
\* configured number without the minimum
interval_as_seconds(cfg) == from_millis(Max(cfg.interval_ms, MIN_INTERVAL_MS) * 1000)
interval_unclamped(cfg) == from_millis(cfg.interval_ms)

\* app.rs:521  let interval = Duration::from_millis(config.interval_ms.max(10))
interval(cfg) == from_millis(Max(cfg.interval_ms, MIN_INTERVAL_MS))

\* mutants of load: the flag read inverted, and the flag never seen set
load_inverted(flag) == ~flag
load_never(flag) == FALSE

\* app.rs:537, 554  stop_flag.load(Ordering::Relaxed)
load(flag) == flag

\* Sender::send on the run's channel: the event is queued while the receiver
\* lives (the owner holds it in events_rx), and the send fails otherwise
send_ok == events_rx
send(q, event) == IF send_ok THEN Append(q, event) ELSE q

\* the worker sends `event`
Emit(event) ==
    /\ queue' = send(queue, event)
    /\ emitted' = Append(emitted, event)

\* the thread function returns
ThreadReturns ==
    /\ wpc' = "finished"
    /\ alive' = alive - 1

\* thread::sleep(d): the clock moves on by at least d
Sleep(d) ==
    /\ \E j \in JitterSet : clock' = clock + d + j
    /\ sleptSinceStop' = IF stop_flag THEN sleptSinceStop + d ELSE sleptSinceStop

\* the count of `op` since cancellation was requested, after one more of it
Counted(op) ==
    IF stop_flag THEN [sinceStop EXCEPT ![op] = @ + 1] ELSE sinceStop

\* app.rs:519-535  the thread starts: last_click = None, send Info("Monitoring active")
run_worker_start ==
    /\ wpc = "start"
    /\ last_click' = None
    /\ Emit(Info)
    /\ IF send_ok
         THEN wpc' = "loop_top" /\ alive' = alive
         ELSE ThreadReturns
    /\ UNCHANGED << ownerVars, stop_flag, wconfig, tickVars, clock, handled,
                    sinkLog, ticks, restarted, sleptSinceStop, sinceStop >>
    /\ UNCHANGED matcherVars

\* app.rs:537  while !stop_flag.load(Ordering::Relaxed)
run_worker_loop_top ==
    /\ wpc = "loop_top"
    /\ IF load(stop_flag)
         THEN wpc' = "send_stopped" /\ ticks' = ticks
         ELSE /\ ticks < MaxTicks
              /\ wpc' = "capture"
              /\ ticks' = ticks + 1
    /\ now' = 0
    /\ frame' = "-"
    /\ result' = None
    /\ screen' = None
    /\ UNCHANGED << ownerVars, queue, stop_flag, wconfig, last_click, clock,
                    emitted, handled, sinkLog, restarted, alive, sleptSinceStop, sinceStop >>
    /\ UNCHANGED matcherVars

\* app.rs:538, 547-551  capture_monitor_gray fails: send Error, sleep 250 ms
run_worker_capture_failed ==
    /\ wpc = "capture"
    /\ frame' = "Err"
    /\ Emit(CaptureError)
    /\ Sleep(from_millis(RECOVERY_DELAY_MS))
    /\ wpc' = "check_stop"
    /\ sinceStop' = Counted("capture")
    /\ UNCHANGED << ownerVars, stop_flag, wconfig, last_click, now, result,
                    screen, handled, sinkLog, ticks, restarted, alive >>
    /\ UNCHANGED matcherVars

\* ---------------------------------------------- the worker: handle_frame

\* mutants of below_threshold: a score at the threshold rejected, and no
\* score rejected
below_threshold_inclusive(score, threshold) == score <= threshold
below_threshold_ignored(score, threshold) == FALSE

\* app.rs:574  if result.score < config.threshold { return; }
below_threshold(score, threshold) == score < threshold

\* mutant of cooldown_active: still active at exactly last + cooldown
cooldown_active_inclusive(last, now_, cooldown_) ==
    IsSome(last) /\ duration_since(now_, Unwrap(last)) <= cooldown_

\* app.rs:579-581  if let Some(last) = last_click { elapsed < cooldown }
cooldown_active(last, now_, cooldown_) ==
    IsSome(last) /\ duration_since(now_, Unwrap(last)) < cooldown_

\* app.rs:580-585  remaining = cooldown.saturating_sub(elapsed); remaining.as_millis()
remaining_ms(last, now_, cooldown_) ==
    as_millis(saturating_sub(cooldown_, duration_since(now_, Unwrap(last))))

\* mutants of last_click_after: the action never recorded, and recorded even
\* when the sink failed
last_click_after_never(ok, last, now_) == last
last_click_after_always(ok, last, now_) == Some(now_)

\* app.rs:607-625  *last_click = Some(now) only after click_at returned Ok
last_click_after(ok, last, now_) == IF ok THEN Some(now_) ELSE last

\* app.rs:591-592  (result.template_size.N as i32) / 2: the quotient of the
\* integer division, the half of an odd size rounded down
template_half(size) == size \div 2

\* mutant of screen_coords: the click offset left out
screen_coords_no_offset(origin, d, cfg) ==
    << origin[1] + d.position[1] + template_half(d.template_size[1]),
       origin[2] + d.position[2] + template_half(d.template_size[2]) >>

\* app.rs:594-597  screen_x, screen_y = frame.origin + result.position +
\* template_half + config.click_offset
screen_coords(origin, d, cfg) ==
    << origin[1] + d.position[1] + template_half(d.template_size[1]) + cfg.click_offset_x,
       origin[2] + d.position[2] + template_half(d.template_size[2]) + cfg.click_offset_y >>

\* app.rs:538-546, 573-605  the capture succeeds and handle_frame runs up to
\* the call of the Action Sink: detect, threshold, gate, Detection event
handle_frame ==
    /\ wpc = "capture"
    /\ frame' = "Ok"
    /\ \E r \in {None} \cup {Some(d) : d \in DetectionSet} :
        /\ result' = r
        /\ IF ~IsSome(r) \/ below_threshold(Unwrap(r).score, run_worker_config.threshold)
             THEN /\ wpc' = "check_stop"
                  /\ UNCHANGED << now, screen, queue, emitted >>
             ELSE /\ now' = clock
                  /\ IF cooldown_active(last_click, clock, cooldown(run_worker_config))
                       THEN /\ Emit(CooldownActive(Unwrap(r).score,
                                   remaining_ms(last_click, clock, cooldown(run_worker_config))))
                            /\ screen' = screen
                            /\ wpc' = "check_stop"
                       ELSE /\ screen' = Some(screen_coords(frame_origin, Unwrap(r), run_worker_config))
                            /\ Emit(Detection(Unwrap(r), Unwrap(screen')))
                            /\ wpc' = "click_at"
    /\ sinceStop' = Counted("capture")
    /\ UNCHANGED << ownerVars, stop_flag, wconfig, last_click, clock, handled,
                    sinkLog, ticks, restarted, alive, sleptSinceStop >>
    /\ UNCHANGED matcherVars

\* app.rs:607-625, input.rs:6-12  the Action Sink is called and returns Ok or
\* Err; it sleeps 30 ms between move and click (taken as exactly 30 ms)
handle_frame_click_at ==
    /\ wpc = "click_at"
    /\ clock' = clock + from_millis(CLICK_SLEEP_MS)
    /\ \E ok \in BOOLEAN :
        /\ sinkLog' = Append(sinkLog, [at |-> now, ok |-> ok, coords |-> Unwrap(screen),
                                      start |-> clock, end |-> clock'])
        /\ Emit(IF ok THEN Clicked(Unwrap(screen)) ELSE ClickError)
        /\ last_click' = last_click_after(ok, last_click, now)
    /\ sleptSinceStop' = IF stop_flag
                            THEN sleptSinceStop + from_millis(CLICK_SLEEP_MS)
                            ELSE sleptSinceStop
    /\ wpc' = "check_stop"
    /\ sinceStop' = Counted("click_at")
    /\ UNCHANGED << ownerVars, stop_flag, wconfig, tickVars, handled, ticks,
                    restarted, alive >>
    /\ UNCHANGED matcherVars

\* app.rs:554-556  if stop_flag.load(Ordering::Relaxed) { break; }
run_worker_check_stop ==
    /\ wpc = "check_stop"
    /\ wpc' = IF load(stop_flag) THEN "send_stopped" ELSE "sleep"
    /\ UNCHANGED << ownerVars, queue, stop_flag, wconfig, last_click, tickVars,
                    clock, histVars >>
    /\ UNCHANGED matcherVars

\* app.rs:558  thread::sleep(interval)
run_worker_sleep ==
    /\ wpc = "sleep"
    /\ Sleep(interval(run_worker_config))
    /\ wpc' = "loop_top"
    /\ UNCHANGED << ownerVars, queue, stop_flag, wconfig, last_click, tickVars,
                    emitted, handled, sinkLog, ticks, restarted, alive, sinceStop >>
    /\ UNCHANGED matcherVars

\* app.rs:561-563  send Stopped; the thread function returns
run_worker_send_stopped ==
    /\ wpc = "send_stopped"
    /\ Emit(Stopped)
    /\ ThreadReturns
    /\ UNCHANGED << ownerVars, stop_flag, wconfig, last_click, tickVars, clock,
                    handled, sinkLog, ticks, restarted, sleptSinceStop, sinceStop >>
    /\ UNCHANGED matcherVars

\* app.rs:538-546  a panic in the code run_worker calls (the capture, the
\* matcher, the Action Sink) unwinds the thread: it ends without Stopped
run_worker_panics ==
    /\ wpc \in {"capture", "click_at"}
    /\ ThreadReturns
    /\ UNCHANGED << ownerVars, queue, stop_flag, wconfig, last_click, tickVars,
                    clock, emitted, handled, sinkLog, ticks, restarted,
                    sleptSinceStop, sinceStop >>
    /\ UNCHANGED matcherVars

WorkerNext ==
    \/ run_worker_start
    \/ run_worker_loop_top
    \/ run_worker_capture_failed
    \/ handle_frame
    \/ handle_frame_click_at
    \/ run_worker_check_stop
    \/ run_worker_sleep
    \/ run_worker_send_stopped

\* ----------------------------------------------- the owner: LolAutoAcceptApp
\* The owner runs on the UI thread.  eframe calls update() once per frame;
\* update() polls, checks the worker's lifecycle and renders, and a click on
\* Start, Stop or Exit is handled while rendering.  The only place where the
\* owner waits for the worker is WorkerHandle::join.

\* the owner's fields that poll_events and check_worker_lifecycle touch
App == [running |-> running, worker |-> worker, thread |-> thread,
        stop_flag |-> stop_flag, handled |-> handled, queue |-> queue]

\* app.rs:177-223  handle_event: Stopped clears `running`; every event is handled
handle_event(app, event) ==
    [app EXCEPT !.running = IF event.type = "Stopped" THEN FALSE ELSE @,
                !.handled = Append(@, event)]

\* mutant of try_recv_all: the newest event is received and thrown away
try_recv_all_but_last(q) == IF q = <<>> THEN q ELSE SubSeq(q, 1, Len(q) - 1)

\* app.rs:143-146  while let Ok(event) = rx.try_recv() { events.push(event) }
try_recv_all(q) == q

\* app.rs:150-152  for event in events { self.handle_event(event) }
RECURSIVE handle_events(_, _)
handle_events(app, events) ==
    IF events = <<>> THEN app
    ELSE handle_events(handle_event(app, Head(events)), Tail(events))

\* app.rs:140-157  poll_events drains the channel and handles what it held
poll_events(app) ==
    IF events_rx
      THEN handle_events([app EXCEPT !.queue = <<>>], try_recv_all(app.queue))
      ELSE app

\* mutant of is_finished: a thread that has returned is never noticed
is_finished_never == FALSE

\* app.rs:471-473  WorkerHandle::is_finished: the handle still holds its
\* thread, and the thread has returned
is_finished == thread /\ wpc = "finished"

\* mutant of check_worker_lifecycle: the handle is dropped and `running` kept
check_worker_lifecycle_keeps_running(app) ==
    IF app.worker /\ is_finished
      THEN [app EXCEPT !.worker = FALSE, !.thread = FALSE, !.stop_flag = TRUE]
      ELSE app

\* app.rs:159-168, 476-481  check_worker_lifecycle: a handle whose thread has
\* returned is joined (which takes its thread) and dropped (which sets its
\* flag and finds no thread left to join)
check_worker_lifecycle(app) ==
    IF app.worker /\ is_finished
      THEN [app EXCEPT !.worker = FALSE, !.running = FALSE,
                       !.thread = FALSE, !.stop_flag = TRUE]
      ELSE app

\* app.rs:428-430  update() begins: poll_logs, poll_events, check_worker_lifecycle
update_begin == check_worker_lifecycle(poll_events(App))

\* the owner's fields are those of `app`
OwnerIs(app) ==
    /\ running' = app.running
    /\ worker' = app.worker
    /\ thread' = app.thread
    /\ stop_flag' = app.stop_flag
    /\ handled' = app.handled
    /\ queue' = app.queue

\* app.rs:427-450, 283-322  a frame in which no button is clicked
update ==
    /\ ownerPc = "update"
    /\ ~exit_requested
    /\ OwnerIs(update_begin)
    /\ UNCHANGED << config, events_rx, exit_requested, start_failed, start_ignored,
                    ownerPc, wpc, wconfig, last_click, tickVars, clock,
                    emitted, sinkLog, ticks, restarted, alive, sleptSinceStop, sinceStop >>
    /\ UNCHANGED matcherVars

\* app.rs:324-349  render_settings: a frame in which the cooldown or a click
\* offset is edited; self.config changes, nothing else does
render_settings ==
    /\ ownerPc = "update"
    /\ ~exit_requested
    /\ OwnerIs(update_begin)
    /\ \E c \in AppConfigs :
        /\ c # config
        /\ c.threshold = config.threshold
        /\ c.interval_ms = config.interval_ms
        /\ config' = c
    /\ UNCHANGED << events_rx, exit_requested, start_failed, start_ignored, ownerPc,
                    wpc, wconfig, last_click, tickVars, clock, emitted,
                    sinkLog, ticks, restarted, alive, sleptSinceStop, sinceStop >>
    /\ UNCHANGED matcherVars

\* mutant of unbounded: the channel of the run before, with what it holds
unbounded_of_last_run == queue

\* app.rs:231  crossbeam_channel::unbounded(): a new channel, which is empty;
\* the receiver of the run before is dropped when events_rx is assigned (244)
unbounded == <<>>

\* app.rs:225-246  spawn_worker, after the template loaded: a new channel, a new
\* flag, a new thread with a clone of the configuration.  Instants are only
\* compared within one run, so the clock is counted from the run's start
spawn_worker ==
    /\ wconfig' = config
    /\ queue' = unbounded
    /\ stop_flag' = FALSE
    /\ wpc' = "start"
    /\ worker' = TRUE
    /\ thread' = TRUE
    /\ events_rx' = TRUE
    /\ restarted' = events_rx
    /\ alive' = alive + 1
    /\ emitted' = <<>>
    /\ handled' = <<>>
    /\ sinkLog' = <<>>
    /\ ticks' = 0
    /\ sleptSinceStop' = 0
    /\ sinceStop' = [capture |-> 0, click_at |-> 0]
    /\ start_ignored' = FALSE
    /\ last_click' = None
    /\ frame' = "-"
    /\ result' = None
    /\ screen' = None
    /\ now' = 0
    /\ clock' = 0

\* mutant of start_fails: a template that cannot be decoded does not stop the
\* start
start_fails_on_path_only(outcome) == outcome = "path_error"

\* app.rs:81-85, 227-230  start_monitoring returns early when the template path
\* typed in does not exist, and spawn_worker returns Err (by `?`) when the
\* template is not found or cannot be decoded
start_fails(outcome) == outcome # "ok"

\* mutant of already_running: the guard left out
already_running_ignored(app) == FALSE

\* app.rs:77-79  if self.running { return; }
already_running(app) == app.running

\* app.rs:76-101  start_monitoring, called in the frame whose polls left `app`:
\* it returns at once when running; otherwise the template path, its lookup
\* or its decoding may fail, and then no worker is spawned
start_monitoring_in(app) ==
    IF already_running(app)
      THEN /\ OwnerIs(app)
           /\ start_ignored' = TRUE
           /\ UNCHANGED << events_rx, start_failed, wpc, wconfig, last_click,
                           tickVars, clock, emitted, sinkLog, ticks, restarted,
                           alive, sleptSinceStop, sinceStop >>
      ELSE \E outcome \in {"ok", "path_error", "load_error"} :
            /\ start_failed' = (outcome # "ok")
            /\ IF start_fails(outcome)
                 THEN /\ OwnerIs(app)
                      /\ UNCHANGED << events_rx, start_ignored, wpc, wconfig,
                                      last_click, tickVars, clock, emitted, sinkLog,
                                      ticks, restarted, alive, sleptSinceStop,
                                      sinceStop >>
                 ELSE /\ spawn_worker
                      /\ running' = TRUE

\* app.rs:287-292  Start is clicked (the button is enabled while not running)
start_monitoring ==
    /\ ownerPc = "update"
    /\ ~exit_requested
    /\ LET app == update_begin IN
        /\ ~app.running
        /\ start_monitoring_in(app)
    /\ UNCHANGED << config, exit_requested, ownerPc >>
    /\ UNCHANGED matcherVars

\* app.rs:76-79  start_monitoring is called while running, which the disabled
\* Start button does not do
start_monitoring_while_running ==
    /\ ownerPc = "update"
    /\ ~exit_requested
    /\ LET app == update_begin IN
        /\ app.running
        /\ start_monitoring_in(app)
    /\ UNCHANGED << config, exit_requested, ownerPc >>
    /\ UNCHANGED matcherVars

\* app.rs:459-461  WorkerHandle::request_stop
request_stop(app) == [app EXCEPT !.stop_flag = TRUE]

\* app.rs:293-298, 103-106  Stop is clicked (the button is enabled while
\* running): stop_monitoring takes the handle, requests stop and joins
stop_monitoring ==
    /\ ownerPc = "update"
    /\ ~exit_requested
    /\ LET app == update_begin IN
        /\ app.running
        /\ IF app.worker
             THEN /\ OwnerIs(request_stop([app EXCEPT !.worker = FALSE]))
                  /\ ownerPc' = "stop_join"
             ELSE /\ OwnerIs([app EXCEPT !.running = FALSE])
                  /\ UNCHANGED ownerPc
    /\ UNCHANGED << config, events_rx, exit_requested, start_failed, start_ignored, wpc,
                    wconfig, last_click, tickVars, clock, emitted, sinkLog, ticks,
                    restarted, alive, sleptSinceStop, sinceStop >>
    /\ UNCHANGED matcherVars

\* mutant of join_returns: join does not wait for the thread
join_returns_at_once == TRUE

\* app.rs:465  JoinHandle::join returns once the thread has returned
join_returns == wpc = "finished"

\* mutants of WorkerHandle_join: a handle without a thread is unwrapped, and a
\* handle without a thread is waited for
WorkerHandle_join_unwrap(t) ==
    IF t THEN (IF join_returns THEN "joined" ELSE "blocked") ELSE "panic"
WorkerHandle_join_waits(t) ==
    IF t /\ join_returns THEN "joined" ELSE "blocked"

\* app.rs:463-469  WorkerHandle::join: if let Some(handle) = self.thread.take()
\* { handle.join() }; a handle whose thread was taken before has nothing to do
WorkerHandle_join(t) ==
    IF t THEN (IF join_returns THEN "joined" ELSE "blocked") ELSE "nothing"

\* app.rs:106-110, 476-481  stop_monitoring after worker.join() returned: the
\* handle taken is dropped at the end of the block, and its Drop requests stop
\* and joins once more
stop_monitoring_joined ==
    /\ ownerPc = "stop_join"
    /\ WorkerHandle_join(thread) # "blocked"
    /\ LET dropped == WorkerHandle_join(FALSE) IN
        /\ dropped # "blocked"
        /\ IF WorkerHandle_join(thread) = "panic" \/ dropped = "panic"
             THEN ownerPc' = "panicked" /\ running' = running
             ELSE ownerPc' = "update" /\ running' = FALSE
    /\ thread' = FALSE
    /\ stop_flag' = request_stop(App).stop_flag
    /\ UNCHANGED << config, worker, events_rx, exit_requested, start_failed, start_ignored, queue,
                    wpc, wconfig, last_click, tickVars, clock, histVars >>
    /\ UNCHANGED matcherVars

\* app.rs:299-301, 428-435, 476-481  Exit is clicked; the next update() polls,
\* checks the worker and closes the viewport, and the app is dropped: a
\* WorkerHandle still held is dropped, which requests stop and joins
exit_clicked ==
    /\ ownerPc = "update"
    /\ ~exit_requested
    /\ exit_requested' = TRUE
    /\ LET app == update_begin IN
        /\ IF app.worker
             THEN /\ OwnerIs(request_stop(app))
                  /\ ownerPc' = "drop_join"
             ELSE /\ OwnerIs(app)
                  /\ ownerPc' = "dropped"
    /\ UNCHANGED << config, events_rx, start_failed, start_ignored, wpc, wconfig,
                    last_click, tickVars, clock, emitted, sinkLog, ticks, restarted,
                    alive, sleptSinceStop, sinceStop >>
    /\ UNCHANGED matcherVars

\* app.rs:476-481  Drop for WorkerHandle after join() returned
drop_joined ==
    /\ ownerPc = "drop_join"
    /\ WorkerHandle_join(thread) # "blocked"
    /\ worker' = FALSE
    /\ thread' = FALSE
    /\ ownerPc' = IF WorkerHandle_join(thread) = "panic" THEN "panicked" ELSE "dropped"
    /\ UNCHANGED << config, running, events_rx, exit_requested, start_failed, start_ignored, queue,
                    stop_flag, wpc, wconfig, last_click, tickVars, clock, histVars >>
    /\ UNCHANGED matcherVars

OwnerNext ==
    \/ update
    \/ start_monitoring
    \/ stop_monitoring
    \/ stop_monitoring_joined
    \/ exit_clicked
    \/ drop_joined

Next == WorkerNext \/ OwnerNext

Spec == Init /\ [][Next]_vars

\* the operating system schedules the worker thread: it is never starved
FairSpec == Spec /\ WF_vars(WorkerNext)

\* the program with frames in which the settings are edited
SettingsNext == Next \/ render_settings

SettingsSpec == Init /\ [][SettingsNext]_vars

\* the program with what its own buttons and a sound worker never produce: a
\* worker thread that ends by a panic, and a call of start_monitoring while
\* running
AbnormalNext == Next \/ run_worker_panics \/ start_monitoring_while_running

\* update() is called again and again while running (app.rs:447-449,
\* ctx.request_repaint_after), and the drop of the app runs to its end
AbnormalSpec ==
    /\ Init
    /\ [][AbnormalNext]_vars
    /\ WF_vars(update)
    /\ WF_vars(drop_joined)

\* ------------------------------------------------- the matcher: detect.rs

\* detect.rs:7-9  the scale ladder, in hundredths
TEMPLATE_SCALE_FACTORS ==
    << 65, 70, 75, 80, 85, 90, 95, 100, 105, 110, 115, 120, 125, 130 >>

\* detect.rs:103  the arithmetic is in f32: a value is held here as a whole
\* number of 2^-24, the spacing of the f32 values just below 1.0
F32_UNIT == 16777216

\* detect.rs:7-9  the f32 each literal of the ladder denotes (the f32 nearest
\* to the decimal), as a multiple of 2^-24
TEMPLATE_SCALE_FACTORS_F32 ==
    << 10905190, 11744051, 12582912, 13421773, 14260634, 15099494, 15938355,
       16777216, 17616076, 18454938, 19293798, 20132660, 20971520, 21810380 >>

\* the spacing of the f32 values around n: the least power of two that leaves
\* a mantissa of 24 bits
RECURSIVE f32_ulp(_, _)
f32_ulp(n, u) == IF n \div u < F32_UNIT THEN u ELSE f32_ulp(n, 2 * u)

\* detect.rs:103  f32 multiplication: the exact product n rounded to the
\* nearest f32, ties to the even mantissa
f32_mul(n) ==
    LET u == f32_ulp(n, 1)
        q == n \div u
        r == n % u
    IN  IF 2 * r < u \/ (2 * r = u /\ q % 2 = 0) THEN q * u ELSE (q + 1) * u

\* detect.rs:103  f32::round of a value that is not negative: the nearest whole
\* number, a half going up
f32_round(n) == (n + F32_UNIT \div 2) \div F32_UNIT

\* detect.rs:103-104  ((base as f32 * scale).round() as i32).max(1) as u32, for
\* the k-th scale of the ladder
scaled_size(size, k) ==
    Max(f32_round(f32_mul(size * TEMPLATE_SCALE_FACTORS_F32[k])), 1)

\* detect.rs:109  (scale - 1.0).abs() < f32::EPSILON, which is 2^-23
is_unit_scale(k) ==
    LET d == TEMPLATE_SCALE_FACTORS_F32[k] - F32_UNIT
    IN  (IF d < 0 THEN -d ELSE d) < 2

\* detect.rs:105  if new_w < 4 || new_h < 4 { continue; }
variant_too_small(new_w, new_h) == new_w < 4 \/ new_h < 4

\* detect.rs:96-119  build_variants, from the k-th scale of the ladder on: the
\* scale 1.0 keeps the base image, every other one resizes it
RECURSIVE build_variants_from(_, _)
build_variants_from(b, k) ==
    IF k > Len(TEMPLATE_SCALE_FACTORS) THEN <<>>
    ELSE LET scale == TEMPLATE_SCALE_FACTORS[k]
             new_w == scaled_size(b[1], k)
             new_h == scaled_size(b[2], k)
             rest  == build_variants_from(b, k + 1)
         IN  IF scale <= 0 \/ variant_too_small(new_w, new_h)
             THEN rest
             ELSE IF is_unit_scale(k)
                  THEN << [scale |-> scale, width |-> b[1], height |-> b[2],
                           pixels |-> "base"] >> \o rest
                  ELSE << [scale |-> scale, width |-> new_w, height |-> new_h,
                           pixels |-> "resized"] >> \o rest

build_variants(b) == build_variants_from(b, 1)

\* detect.rs:66  frame.width() < variant.width() || frame.height() < variant.height()
variant_skipped(img, variant) ==
    img[1] < variant.width \/ img[2] < variant.height

\* detect.rs:70-74  match_template gives one score per placement of the variant
\* inside the frame: (frame - variant + 1) placements per axis
surface_size(img, variant) ==
    << img[1] - variant.width + 1, img[2] - variant.height + 1 >>

\* detect.rs:121-131  find_peak: enumerate_pixels goes row by row; a pixel
\* replaces the best one only with a strictly greater score
RECURSIVE find_peak_from(_, _, _, _)
find_peak_from(surface, size, k, peak) ==
    IF k >= size[1] * size[2] THEN peak
    ELSE LET x == k % size[1]
             y == k \div size[1]
             score == surface[<< x, y >>]
         IN  find_peak_from(surface, size, k + 1,
                 IF IsSome(peak) /\ score <= Unwrap(peak).score
                 THEN peak
                 ELSE Some([score |-> score, x |-> x, y |-> y]))

\* the position of the peak with its axes exchanged
peak_detection_transposed(peak, variant) ==
    [score |-> peak.score, position |-> << peak.y, peak.x >>,
     template_size |-> << variant.width, variant.height >>,
     scale |-> variant.scale]

\* detect.rs:77-82  the Detection made of a variant's peak
peak_detection(peak, variant) ==
    [score |-> peak.score, position |-> << peak.x, peak.y >>,
     template_size |-> << variant.width, variant.height >>,
     scale |-> variant.scale]

\* a candidate replaces the best one also when it only equals it
replaces_best_on_tie(detection, current) ==
    ~IsSome(current) \/ detection.score >= Unwrap(current).score

\* detect.rs:84-86  best.as_ref().map_or(true, |current| detection.score > current.score)
replaces_best(detection, current) ==
    ~IsSome(current) \/ detection.score > Unwrap(current).score

\* template::load_template (detect.rs:54-60): the variants of the base image
load_template ==
    /\ mpc = "load"
    /\ template' = build_variants(base)
    /\ vi' = 1
    /\ mpc' = "detect"
    /\ UNCHANGED << base, image, best, peaks, programVars >>

\* detect.rs:65-90  one iteration of detect's loop over template.variants()
detect_variant ==
    /\ mpc = "detect"
    /\ vi <= Len(template)
    /\ LET variant == template[vi]
           size == surface_size(image, variant)
       IN  IF variant_skipped(image, variant)
           THEN /\ peaks' = Append(peaks, None)
                /\ best' = best
                /\ mpc' = mpc
           ELSE IF size[1] < 1 \/ size[2] < 1
           THEN \* match_template asserts that the template fits the image
                /\ peaks' = Append(peaks, None)
                /\ best' = best
                /\ mpc' = "panicked"
           ELSE \E surface \in [(0 .. size[1] - 1) \X (0 .. size[2] - 1) -> MatchScoreSet] :
                    LET peak == find_peak_from(surface, size, 0, None)
                        detection == peak_detection(Unwrap(peak), variant)
                    IN  /\ peaks' = Append(peaks, peak)
                        /\ best' = IF replaces_best(detection, best)
                                   THEN Some(detection)
                                   ELSE best
                        /\ mpc' = mpc
    /\ vi' = vi + 1
    /\ UNCHANGED << base, template, image, programVars >>

\* detect.rs:93  detect returns `best`
detect_return ==
    /\ mpc = "detect"
    /\ vi > Len(template)
    /\ mpc' = "done"
    /\ UNCHANGED << base, template, image, vi, best, peaks, programVars >>

\* the matcher on its own: a base image is loaded and one frame is searched,
\* while the program is in its first state
MatcherInit ==
    /\ ProgramInit
    /\ config.interval_ms = 10
    /\ config.cooldown_ms = 0
    /\ base \in BaseSizeSet
    /\ image \in FrameSizeSet
    /\ template = <<>>
    /\ vi = 0
    /\ best = None
    /\ peaks = <<>>
    /\ mpc = "load"

MatcherNext ==
    \/ load_template
    \/ detect_variant
    \/ detect_return

MatcherSpec == MatcherInit /\ [][MatcherNext]_vars

\* ================================================================ claims

Last(q) == q[Len(q)]

\* the detection of the tick clears the threshold (score >= threshold)
Qualifies(r, cfg) == IsSome(r) /\ Unwrap(r).score >= cfg.threshold

\* a step of handle_frame (the capture succeeded and detect ran)
HandleFrameStep == wpc = "capture" /\ frame' = "Ok"

\* a step in which the Action Sink is called
ClickStep == wpc = "click_at" /\ wpc' # "click_at"

\* C1: within one run the Action Sink is never invoked at a gate instant less
\* than the cooldown after the instant of an earlier successful action; so any
\* two successful actions are at least the cooldown apart.
C1_ActionsCooldownApart ==
    \A i, j \in 1..Len(sinkLog) :
        (i < j /\ sinkLog[i].ok) => sinkLog[j].at - sinkLog[i].at >= cooldown(wconfig)

\* two successful actions in one run under a cooldown that is not zero
C1_Witness ==
    /\ cooldown(wconfig) > 0
    /\ \E i, j \in 1..Len(sinkLog) : i < j /\ sinkLog[i].ok /\ sinkLog[j].ok

\* C2: a qualifying detection is permitted iff no action is recorded or
\* now >= last + cooldown (exactly last + cooldown included); otherwise it is
\* suppressed, reporting cooldown - elapsed, which is 1 ms at
\* now = last + cooldown - 1 ms.  Nothing else decides.
C2_GateDecision ==
    [][ (HandleFrameStep /\ Qualifies(result', wconfig)) =>
          LET permit == \/ ~IsSome(last_click)
                        \/ now' >= Unwrap(last_click) + cooldown(wconfig)
          IN /\ now' = clock
             /\ permit => /\ wpc' = "click_at"
                          /\ Len(emitted') = Len(emitted) + 1
                          /\ Last(emitted').type = "Detection"
                          /\ Last(emitted').score = Unwrap(result').score
             /\ ~permit =>
                  /\ wpc' = "check_stop"
                  /\ Len(emitted') = Len(emitted) + 1
                  /\ Last(emitted').type = "CooldownActive"
                  /\ (now' = Unwrap(last_click) + cooldown(wconfig) - from_millis(1))
                       => Last(emitted').remaining_ms = 1
      ]_vars

\* a detection suppressed 1 ms before the cooldown ends, reporting 1 ms
C2_Witness ==
    /\ wpc = "check_stop"
    /\ Qualifies(result, wconfig)
    /\ IsSome(last_click)
    /\ now = Unwrap(last_click) + cooldown(wconfig) - from_millis(1)
    /\ emitted # <<>>
    /\ Last(emitted).type = "CooldownActive"
    /\ Last(emitted).remaining_ms = 1

\* C3: a failing Action Sink yields one Error event, no Clicked, and leaves
\* last_click as it was; while every sink call of the run has failed, the gate
\* is unset and no detection was suppressed.
C3_SinkFailureKeepsGate ==
    /\ [][ (ClickStep /\ ~Last(sinkLog').ok) =>
             /\ emitted' = Append(emitted, ClickError)
             /\ last_click' = last_click ]_vars
    /\ []( (\A i \in 1..Len(sinkLog) : ~sinkLog[i].ok) =>
             /\ last_click = None
             /\ \A k \in 1..Len(emitted) : emitted[k].type # "CooldownActive" )

\* the sink failed on two qualifying ticks in a row under a cooldown longer
\* than the time between them: the second tick called the sink again
C3_Witness ==
    /\ Len(sinkLog) = 2
    /\ ~sinkLog[1].ok /\ ~sinkLog[2].ok
    /\ sinkLog[2].at - sinkLog[1].at < cooldown(wconfig)
    /\ last_click = None

\* C4: a detection whose score equals the threshold reaches the gate (an event
\* is sent: Detection when permitted, CooldownActive when not); a detection
\* whose score is below the threshold does not.
C4_ThresholdInclusive ==
    [][ (HandleFrameStep /\ IsSome(result')) =>
          /\ Unwrap(result').score = wconfig.threshold =>
                /\ Len(emitted') = Len(emitted) + 1
                /\ Last(emitted').type \in {"Detection", "CooldownActive"}
                /\ (Last(emitted').type = "Detection") = (wpc' = "click_at")
          /\ Unwrap(result').score < wconfig.threshold =>
                /\ wpc' # "click_at"
                /\ \A k \in 1..Len(emitted') :
                       emitted'[k].type \in {"Detection", "CooldownActive"} => k <= Len(emitted)
      ]_vars

\* a detection scoring exactly the threshold is about to be acted on
C4_Witness ==
    /\ wpc = "click_at"
    /\ IsSome(result)
    /\ Unwrap(result).score = wconfig.threshold

\* C5: a tick with no detection, or one below the threshold, sends no event,
\* does not call the Action Sink and leaves the gate state as it was.
C5_SubThresholdSilent ==
    [][ (HandleFrameStep /\ ~Qualifies(result', wconfig)) =>
          /\ emitted' = emitted
          /\ queue' = queue
          /\ sinkLog' = sinkLog
          /\ last_click' = last_click
          /\ wpc' = "check_stop" ]_vars

\* a sub-threshold tick after an action was recorded: the gate is still set
C5_Witness ==
    /\ wpc = "check_stop"
    /\ frame = "Ok"
    /\ IsSome(result)
    /\ Unwrap(result).score < wconfig.threshold
    /\ IsSome(last_click)

\* C6: a failed capture sends exactly one Error event, runs neither matcher nor
\* sink, leaves the gate as it was and goes on to the next iteration; the worker
\* leaves its loop only when cancellation has been requested.
C6_CaptureFailureNotFatal ==
    /\ [][ (wpc = "capture" /\ frame' = "Err") =>
             /\ emitted' = Append(emitted, CaptureError)
             /\ result' = None
             /\ sinkLog' = sinkLog
             /\ last_click' = last_click
             /\ wpc' = "check_stop" ]_vars
    /\ [][ (wpc = "check_stop" /\ frame = "Err" /\ ~stop_flag /\ wpc' # wpc) =>
             wpc' = "sleep" ]_vars
    /\ [][ (wpc = "sleep" /\ wpc' # wpc) => wpc' = "loop_top" ]_vars
    /\ []( wpc \in {"send_stopped", "finished"} => stop_flag )

\* every capture of the run failed, and the worker is at the top of its loop
\* again, not cancelled
C6_Witness ==
    /\ wpc = "loop_top"
    /\ ~stop_flag
    /\ ticks = MaxTicks
    /\ Len(emitted) = 1 + MaxTicks
    /\ \A k \in 2..Len(emitted) : emitted[k] = CaptureError

\* C7: once cancellation is requested the worker eventually sends Stopped and
\* returns; Stopped is sent once and no event of the run follows it.
C7_StopLeadsToStopped ==
    /\ stop_flag ~> (wpc = "finished" /\ emitted # <<>> /\ Last(emitted) = Stopped)
    /\ [](\A k \in 1..Len(emitted) : emitted[k] = Stopped => k = Len(emitted))
    /\ [](wpc = "finished" => (emitted # <<>> /\ Last(emitted) = Stopped))

\* the worker was cancelled in the middle of a tick and has stopped
C7_Witness ==
    /\ wpc = "finished"
    /\ stop_flag
    /\ Len(emitted) >= 3
    /\ Last(emitted) = Stopped

\* C8: stop_monitoring (and the drop of the handle) returns only after the
\* worker sent Stopped and its thread returned, and at most one worker thread
\* is alive at any time.
C8_StopIsSynchronous ==
    /\ alive <= 1
    /\ (~worker /\ ownerPc # "stop_join") =>
          /\ alive = 0
          /\ events_rx => (wpc = "finished" /\ emitted # <<>> /\ Last(emitted) = Stopped)

\* a second worker runs after the first was stopped and joined
C8_Witness ==
    /\ restarted
    /\ alive = 1
    /\ wpc = "capture"

\* C9: after cancellation is requested the worker sleeps no more than one poll
\* interval plus the 250 ms recovery delay before it sends Stopped.
C9_ShutdownLatency ==
    stop_flag =>
        sleptSinceStop <= from_millis(Max(wconfig.interval_ms, MIN_INTERVAL_MS))
                            + from_millis(RECOVERY_DELAY_MS)

\* cancelled while the capture failed: the worker stopped after the recovery
\* delay alone
C9_Witness ==
    /\ wpc = "finished"
    /\ frame = "Err"
    /\ sleptSinceStop = from_millis(RECOVERY_DELAY_MS)

\* C10: the events handled by the observer followed by those still in the
\* channel are exactly the events the worker sent, in order; each poll handles
\* everything sent before it.
C10_ReliableInOrder ==
    /\ [](events_rx => handled \o queue = emitted)
    /\ [][ (handled' # handled /\ wpc' # "start") =>
             (handled' = emitted /\ queue' = <<>>) ]_vars

\* some events were handled by an earlier poll and more are waiting
C10_Witness ==
    /\ Len(handled) >= 2
    /\ Len(queue) >= 2
    /\ wpc # "finished"

\* the positions of the events of the run that report a tick's outcome
TickEvents ==
    { k \in 1..Len(emitted) :
        emitted[k] = CaptureError \/ emitted[k].type \in {"CooldownActive", "Detection"} }

\* the positions of the Detection events of the run, and the n-th of them
DetectionEvents == { k \in 1..Len(emitted) : emitted[k].type = "Detection" }
NthDetection(n) ==
    CHOOSE k \in DetectionEvents :
        Cardinality({ m \in DetectionEvents : m <= k }) = n

\* C11: the events of a run are Info first, then per tick nothing, one capture
\* Error, one CooldownActive, or one Detection immediately followed by Clicked or
\* a click Error, and Stopped last; Clicked carries the screen coordinates of the
\* Detection before it, and the Detection is sent before the Action Sink is
\* called (with those coordinates).
C11_EventProtocol ==
    /\ \A k \in 1..Len(emitted) :
        LET e == emitted[k] IN
        /\ e.type \in {"Info", "Error", "CooldownActive", "Detection", "Clicked", "Stopped"}
        /\ (e.type = "Info") <=> (k = 1)
        /\ e.type = "Stopped" => (k = Len(emitted) /\ wpc = "finished")
        /\ e.type = "Detection" =>
              IF k = Len(emitted)
                THEN wpc = "click_at"
                ELSE emitted[k + 1].type = "Clicked" \/ emitted[k + 1] = ClickError
        /\ (e.type = "Clicked" \/ e = ClickError) =>
              (k > 1 /\ emitted[k - 1].type = "Detection")
        /\ e.type = "Clicked" => e.screen_coords = emitted[k - 1].screen_coords
    /\ Cardinality(TickEvents) <= ticks
    /\ Cardinality(DetectionEvents) = Len(sinkLog) + (IF wpc = "click_at" THEN 1 ELSE 0)
    /\ \A i \in 1..Len(sinkLog) :
          sinkLog[i].coords = emitted[NthDetection(i)].screen_coords

\* a finished run of two ticks: an action, then a suppressed detection
C11_Witness ==
    /\ wpc = "finished"
    /\ Len(emitted) = 5
    /\ emitted[2].type = "Detection"
    /\ emitted[3].type = "Clicked"
    /\ emitted[4].type = "CooldownActive"
    /\ emitted[5] = Stopped

\* the coordinate `c` is origin + position + half + offset on axis `a`, where
\* `half` is what Half(size) says
CoordinateIs(c, a, e, Half(_)) ==
    LET offset == IF a = 1 THEN wconfig.click_offset_x ELSE wconfig.click_offset_y
    IN c = frame_origin[a] + e.image_coords[a] + Half(e.template_size[a]) + offset

\* half of a size rounded to the nearest whole number, a half rounding up (as
\* f32::round does)
HalfRounded(size) == (size + 1) \div 2

\* half of a size rounded down: the h with 2h <= size <= 2h + 1
HalfRoundedDown(size) == size \div 2

\* C12 as claimed: the coordinates reported in Detection are, per axis,
\* origin + position + half the variant size rounded + click offset, also for
\* odd sizes.
C12_CoordinatesHalfRounded ==
    \A k \in DetectionEvents : \A a \in 1..2 :
        CoordinateIs(emitted[k].screen_coords[a], a, emitted[k], HalfRounded)

\* C12, amended: the coordinates passed to the Action Sink and reported in
\* Detection and Clicked are, per axis, origin + position + half the variant
\* size rounded down + click offset.
C12_CoordinatesHalfRoundedDown ==
    /\ \A k \in DetectionEvents : \A a \in 1..2 :
          CoordinateIs(emitted[k].screen_coords[a], a, emitted[k], HalfRoundedDown)
    /\ \A k \in 2..Len(emitted) :
          emitted[k].type = "Clicked" =>
              /\ emitted[k - 1].type = "Detection"
              /\ emitted[k].screen_coords = emitted[k - 1].screen_coords
    /\ \A i \in 1..Len(sinkLog) : \A a \in 1..2 :
          CoordinateIs(sinkLog[i].coords[a], a, emitted[NthDetection(i)], HalfRoundedDown)

\* an action was taken on a detection of odd width and height, on a monitor of
\* negative origin with a negative offset
C12_Witness ==
    /\ frame_origin[1] < 0
    /\ wconfig.click_offset_x < 0
    /\ \E k \in 2..Len(emitted) :
        /\ emitted[k].type = "Clicked"
        /\ emitted[k - 1].template_size[1] % 2 = 1
        /\ emitted[k - 1].template_size[2] % 2 = 1

\* C13 as claimed: any two calls of the Action Sink in a run, successful or
\* not, are at least the cooldown apart (and do not overlap).
C13_AnyTwoCallsCooldownApart ==
    \A i, j \in 1..Len(sinkLog) :
        i < j => /\ sinkLog[i].end <= sinkLog[j].start
                 /\ sinkLog[j].start - sinkLog[i].start >= cooldown(wconfig)

\* C13, amended: the Action Sink is called by the single worker thread only, at
\* most once per tick, and the calls of a run do not overlap; two calls are less
\* than the cooldown apart only if every call from the earlier one up to the
\* later one failed.
C13_CallsApartUnlessFailed ==
    /\ wpc = "click_at" => alive = 1
    /\ Len(sinkLog) <= ticks
    /\ \A i, j \in 1..Len(sinkLog) :
        i < j =>
            /\ sinkLog[i].end <= sinkLog[j].start
            /\ sinkLog[j].start - sinkLog[i].start < cooldown(wconfig) =>
                  \A k \in i..(j - 1) : ~sinkLog[k].ok

\* the sink failed, and the next tick called it again, with success, before
\* the cooldown was over
C13_Witness ==
    /\ Len(sinkLog) = 2
    /\ ~sinkLog[1].ok
    /\ sinkLog[2].ok
    /\ sinkLog[2].start - sinkLog[1].start < cooldown(wconfig)

\* the tick was suppressed by the gate: its CooldownActive event is the last
\* event sent, and last_click and now are those the gate compared
Suppressed ==
    /\ wpc = "check_stop"
    /\ frame = "Ok"
    /\ Qualifies(result, wconfig)
    /\ emitted # <<>>
    /\ Last(emitted).type = "CooldownActive"

\* cooldown - elapsed of the suppressed tick, in clock units
RemainingOfTick == cooldown(wconfig) - (now - Unwrap(last_click))

\* a duration rounded to the nearest whole millisecond, a half rounding up
RoundedMs(d) == (2 * d + UnitsPerMs) \div (2 * UnitsPerMs)

\* C14 as claimed: every CooldownActive event reports cooldown - elapsed rounded
\* to whole milliseconds, also when elapsed is not a whole number of
\* milliseconds.
C14_RemainingRounded ==
    Suppressed => Last(emitted).remaining_ms = RoundedMs(RemainingOfTick)

\* C14, amended: every CooldownActive event reports cooldown - elapsed with the
\* fraction of a millisecond dropped: the whole number r of milliseconds with
\* r ms <= cooldown - elapsed < (r + 1) ms.
C14_RemainingTruncated ==
    Suppressed =>
        /\ IsSome(last_click)
        /\ 0 <= now - Unwrap(last_click)
        /\ now - Unwrap(last_click) < cooldown(wconfig)
        /\ Last(emitted).remaining_ms >= 0
        /\ from_millis(Last(emitted).remaining_ms) <= RemainingOfTick
        /\ RemainingOfTick < from_millis(Last(emitted).remaining_ms + 1)
        /\ Last(emitted).score = Unwrap(result).score

\* a tick suppressed when the remaining cooldown was not a whole number of
\* milliseconds
C14_Witness ==
    /\ Suppressed
    /\ RemainingOfTick % UnitsPerMs # 0

\* C15: when the template path cannot be resolved or the image cannot be
\* decoded, start_monitoring spawns no thread, creates no handle and leaves
\* `running` false; no worker runs, so no worker event is sent: none at all
\* when no run went before, none after the Stopped of the run before otherwise.
C15_FailedStartSpawnsNothing ==
    start_failed =>
        /\ ~running
        /\ ~worker
        /\ ~thread
        /\ alive = 0
        /\ wpc \in {"none", "finished"}
        /\ ~events_rx => (wpc = "none" /\ emitted = <<>> /\ queue = <<>> /\ handled = <<>>)
        /\ events_rx => (wpc = "finished" /\ emitted # <<>> /\ Last(emitted) = Stopped)

\* the first start of the session failed
C15_Witness ==
    /\ start_failed
    /\ ~events_rx
    /\ wpc = "none"
    /\ ownerPc = "update"

C20_JoinIdempotent ==
    /\ ownerPc # "panicked"
    /\ (ownerPc = "stop_join" /\ wpc = "finished") => ENABLED stop_monitoring_joined
    /\ (ownerPc = "drop_join" /\ wpc = "finished") => ENABLED drop_joined
    /\ ~thread => alive = 0
    /\ alive > 0 => (worker \/ ownerPc \in {"stop_join", "drop_join"})
    /\ ownerPc = "dropped" =>
          /\ alive = 0
          /\ ~worker
          /\ events_rx => (stop_flag /\ wpc = "finished")

\* stop_monitoring has returned: its handle was joined, and joined again by
\* its drop
C20_Witness ==
    /\ ownerPc = "update"
    /\ events_rx
    /\ ~thread
    /\ ~running
    /\ wpc = "finished"

\* the variant fits inside the frame on both axes
Fits(variant) == variant.width <= image[1] /\ variant.height <= image[2]

\* the positions in the template of the variants that fit inside the frame
Fitting == { i \in 1 .. Len(template) : Fits(template[i]) }

\* C17: the matcher considers exactly the variants that fit inside the frame;
\* it returns the candidate with the strictly greatest score, on equal scores
\* the candidate of the variant earlier in the ladder; it returns none when no
\* variant fits.
C17_BestOfFittingVariants ==
    /\ mpc # "panicked"
    /\ mpc = "done" =>
         /\ Len(peaks) = Len(template)
         /\ \A i \in 1 .. Len(template) : IsSome(peaks[i]) <=> i \in Fitting
         /\ Fitting = {} <=> best = None
         /\ Fitting # {} =>
              \E i \in Fitting :
                  /\ Unwrap(best) = peak_detection(Unwrap(peaks[i]), template[i])
                  /\ \A j \in Fitting :
                         /\ Unwrap(peaks[j]).score <= Unwrap(peaks[i]).score
                         /\ Unwrap(peaks[j]).score = Unwrap(peaks[i]).score => i <= j

\* detect returned the earlier of two variants whose best scores are equal and
\* the greatest, on a frame that a later variant does not fit
C17_Witness ==
    /\ mpc = "done"
    /\ IsSome(best)
    /\ \E i \in Fitting, j \in Fitting :
           /\ i < j
           /\ Unwrap(best) = peak_detection(Unwrap(peaks[i]), template[i])
           /\ Unwrap(peaks[j]).score = Unwrap(best).score
           /\ template[j].width # template[i].width
    /\ \E k \in 1 .. Len(template) : k \notin Fitting

\* base * scale rounded to the nearest whole number, a half going up, for a
\* scale in hundredths
RoundedTarget(size, scale) == (2 * size * scale + 100) \div 200

\* the positions in the ladder of the scales whose rounded target width and
\* height are both at least 4
KeptScales ==
    { k \in 1 .. Len(TEMPLATE_SCALE_FACTORS) :
        /\ RoundedTarget(base[1], TEMPLATE_SCALE_FACTORS[k]) >= 4
        /\ RoundedTarget(base[2], TEMPLATE_SCALE_FACTORS[k]) >= 4 }

\* C18: the built model holds exactly the scales of the ladder whose rounded
\* target width and height are both at least 4, in ladder order; each variant
\* is round(base * scale) wide and high and at least 4x4; the variant of scale
\* 1.0 is the base image unchanged.
C18_VariantsOfLadder ==
    mpc \in {"detect", "done"} =>
        /\ { template[i].scale : i \in 1 .. Len(template) }
             = { TEMPLATE_SCALE_FACTORS[k] : k \in KeptScales }
        /\ Len(template) = Cardinality(KeptScales)
        /\ \A i \in 1 .. Len(template) - 1 : template[i].scale < template[i + 1].scale
        /\ \A i \in 1 .. Len(template) :
               /\ template[i].width = RoundedTarget(base[1], template[i].scale)
               /\ template[i].height = RoundedTarget(base[2], template[i].scale)
               /\ template[i].width >= 4
               /\ template[i].height >= 4
               /\ template[i].scale = 100 =>
                      /\ template[i].pixels = "base"
                      /\ << template[i].width, template[i].height >> = base

\* C19: every detection the matcher returns is geometrically valid: its
\* variant is no larger than the frame, its position plus its size lies
\* inside the frame, and its scale is a positive scale of the ladder.
C19_DetectionInsideFrame ==
    IsSome(best) =>
        LET d == Unwrap(best)
        IN  /\ \A a \in 1 .. 2 :
                   /\ d.template_size[a] <= image[a]
                   /\ d.position[a] >= 0
                   /\ d.position[a] + d.template_size[a] <= image[a]
            /\ d.scale > 0
            /\ \E k \in 1 .. Len(TEMPLATE_SCALE_FACTORS) : d.scale = TEMPLATE_SCALE_FACTORS[k]
            /\ \E i \in 1 .. Len(template) :
                   /\ template[i].scale = d.scale
                   /\ << template[i].width, template[i].height >> = d.template_size

\* detect returned a detection that is not at the origin and ends at the right
\* edge of a frame that is wider than high
C19_Witness ==
    /\ mpc = "done"
    /\ IsSome(best)
    /\ image[1] > image[2]
    /\ Unwrap(best).position[1] > 0
    /\ Unwrap(best).position[1] + Unwrap(best).template_size[1] = image[1]

\* C21: the observer never handles an event of an earlier run as one of the
\* run that followed it: a new run starts on an empty channel, after a restart
\* the events handled and those waiting are exactly the ones the new worker
\* sent, and no event clears `running` while a worker handle is held.
C21_NoStaleEvents ==
    /\ [](events_rx /\ restarted => handled \o queue = emitted)
    /\ [](worker => running)
    /\ [][ wpc' = "start" => (queue' = <<>> /\ handled' = <<>>) ]_vars
    /\ [][ (running /\ ~running') => (ownerPc = "stop_join" /\ ~worker) ]_vars

\* a second run is active, the observer has handled events of it, and more
\* are waiting
C21_Witness ==
    /\ restarted
    /\ worker
    /\ running
    /\ wpc = "check_stop"
    /\ Len(handled) >= 2
    /\ queue # <<>>

\* C22: the worker reads the cancellation flag at the top of every loop
\* iteration and right after each sleep (the poll-interval sleep and the
\* recovery sleep): a capture starts only from a read of the flag that found
\* it unset, the Action Sink is called only in the tick of such a capture, and
\* a read that finds the flag set leads to Stopped.
C22_FlagReadAfterEverySleep ==
    /\ [][ (wpc = "sleep" /\ wpc' # wpc) => wpc' = "loop_top" ]_vars
    /\ [][ (wpc = "capture" /\ frame' = "Err") => wpc' = "check_stop" ]_vars
    /\ [][ (wpc \in {"loop_top", "check_stop"} /\ wpc' # wpc) =>
             (wpc' = "send_stopped" <=> stop_flag) ]_vars
    /\ [][ (wpc' = "capture" /\ wpc # "capture") =>
             (wpc = "loop_top" /\ ~stop_flag /\ ticks' = ticks + 1) ]_vars
    /\ [][ (wpc' = "click_at" /\ wpc # "click_at") => wpc = "capture" ]_vars
    /\ [][ ticks' = ticks + 1 => (wpc = "loop_top" /\ ~stop_flag) ]_vars

\* cancellation was requested before the recovery sleep; on waking the worker
\* read the flag and left the loop
C22_Witness ==
    /\ wpc = "send_stopped"
    /\ frame = "Err"
    /\ stop_flag
    /\ sleptSinceStop = from_millis(RECOVERY_DELAY_MS)

\* the longest a sleep may take beyond what was asked
MaxJitter == CHOOSE j \in JitterSet : \A k \in JitterSet : k <= j

\* the poll-interval sleep of the run: max(configured interval, 10 ms)
ClampedInterval == from_millis(Max(wconfig.interval_ms, MIN_INTERVAL_MS))

\* C23: after each tick, whether the capture succeeded or failed, the worker
\* sleeps for max(configured interval, 10 ms) unless it finds cancellation
\* requested first; every iteration but the first follows such a sleep, so an
\* interval of 0 makes no busy loop; after a failed capture the recovery delay
\* comes first and the poll-interval sleep is added to it.
C23_IntervalSleepAfterEachTick ==
    /\ [][ (wpc = "check_stop" /\ wpc' # wpc) =>
             (wpc' = "sleep" <=> ~stop_flag) ]_vars
    /\ [][ (wpc \in {"capture", "click_at"} /\ wpc' # wpc) =>
             wpc' \in {"check_stop", "click_at"} ]_vars
    /\ [][ (wpc = "sleep" /\ wpc' # wpc) =>
             /\ wpc' = "loop_top"
             /\ clock' - clock >= ClampedInterval
             /\ clock' - clock <= ClampedInterval + MaxJitter
             /\ clock' - clock >= from_millis(10) ]_vars
    /\ [][ (wpc' = "loop_top" /\ wpc # "loop_top") => wpc \in {"start", "sleep"} ]_vars
    /\ [][ (wpc = "capture" /\ frame' = "Err") =>
             /\ clock' - clock >= from_millis(RECOVERY_DELAY_MS)
             /\ wpc' = "check_stop" ]_vars
    /\ []( (wpc = "loop_top" /\ ticks = 1 /\ frame = "Err") =>
             clock >= from_millis(RECOVERY_DELAY_MS) + ClampedInterval )

\* with an interval of 0 the first capture failed, and the worker is back at
\* the top of the loop 250 ms + 10 ms later
C23_Witness ==
    /\ wpc = "loop_top"
    /\ ticks = 1
    /\ frame = "Err"
    /\ wconfig.interval_ms = 0
    /\ clock = from_millis(RECOVERY_DELAY_MS) + from_millis(10)

\* C24: after every owner operation (start_monitoring, stop_monitoring,
\* poll_events with handle_event, check_worker_lifecycle), in any order and
\* with the worker anywhere, `running` is true exactly when the owner holds a
\* worker handle.
C24_RunningIffWorkerHeld ==
    ownerPc = "update" =>
        /\ running <=> worker
        /\ poll_events(App).running <=> poll_events(App).worker
        /\ update_begin.running <=> update_begin.worker

\* the worker thread ended without Stopped, and the lifecycle check has
\* dropped its handle and cleared `running`
C24_Witness ==
    /\ ownerPc = "update"
    /\ ~running
    /\ ~worker
    /\ ~thread
    /\ wpc = "finished"
    /\ emitted # <<>>
    /\ Last(emitted) # Stopped

\* C26: start_monitoring while a worker is running does nothing: no second
\* thread is spawned, the handle, its flag and the event receiver stay, and the
\* configuration snapshot of the running worker stays.
C26_StartWhileRunningIsNoOp ==
    /\ [][ start_monitoring_while_running =>
             /\ alive' = alive
             /\ running'
             /\ worker' = worker
             /\ thread' = thread
             /\ stop_flag' = stop_flag
             /\ events_rx' = events_rx
             /\ wconfig' = wconfig
             /\ wpc' = wpc
             /\ emitted' = emitted
             /\ handled' \o queue' = handled \o queue
             /\ config' = config ]_vars
    /\ [](alive <= 1)

\* start_monitoring was called while the worker ran, and the worker has gone
\* on to its second tick
C26_Witness ==
    /\ start_ignored
    /\ running
    /\ worker
    /\ alive = 1
    /\ ticks = 2
    /\ wpc = "capture"

\* the owner holds the handle of a thread that has returned
HoldsFinished == worker /\ thread /\ wpc = "finished"

\* C28: when the worker thread has ended without a stop request, the owner's
\* next lifecycle check joins it, drops the handle and clears `running`; that
\* check does come, and after it a worker can be started again.
C28_FinishedWorkerIsReaped ==
    /\ [][ (HoldsFinished /\ ownerPc = "update") =>
             \/ (~worker' /\ ~thread' /\ ~running' /\ alive' = 0)
             \/ (wpc' = "start" /\ worker' /\ running' /\ alive' = 1) ]_vars
    /\ HoldsFinished ~> ~HoldsFinished
    /\ []((ownerPc = "update" /\ ~exit_requested /\ ~running) => ENABLED start_monitoring)

\* the worker ended by a panic in its second tick with no stop requested; the
\* lifecycle check has joined it and dropped its handle, whose drop set the flag
C28_Witness ==
    /\ ownerPc = "update"
    /\ ~exit_requested
    /\ ~running
    /\ ~worker
    /\ ~thread
    /\ stop_flag
    /\ wpc = "finished"
    /\ ticks = 2
    /\ sinceStop = [capture |-> 0, click_at |-> 0]
    /\ Last(emitted) # Stopped

\* C25: once cancellation is requested the worker does at most one more tick:
\* at most one more capture and at most one more call of the Action Sink
\* happen before Stopped is sent, wherever in the loop the request lands, and
\* none after it.
C25_AtMostOneTickAfterStop ==
    /\ sinceStop.capture <= 1
    /\ sinceStop.click_at <= 1
    /\ [][ (stop_flag /\ wpc = "finished") => sinceStop' = sinceStop \/ wpc' = "start" ]_vars
    /\ [][ (stop_flag /\ sinceStop.capture = 1 /\ wpc' # wpc) =>
              wpc' \in {"click_at", "check_stop", "send_stopped", "finished", "start"} ]_vars

\* the request landed before the capture of a tick: the worker captured, called
\* the Action Sink, and then sent Stopped
C25_Witness ==
    /\ wpc = "finished"
    /\ stop_flag
    /\ sinceStop = [capture |-> 1, click_at |-> 1]
    /\ Last(emitted) = Stopped

\* C27: every Marker Model a worker runs with holds at least one variant: for
\* every base image that loads, at least one scale of the ladder survives the
\* 4x4 minimum.
C27_ModelHasVariant ==
    mpc \in {"detect", "done"} => Len(template) >= 1

====
